---- MODULE Spec2Model ----
(***************************************************************************)
(* The weather pipelines (Ingestion.py, Forecast.py, Current_Weather.py)   *)
(* over one object store.  Every store request (list, get, put, delete)    *)
(* and every API fetch is one atomic step of a run; local computation      *)
(* between two requests belongs to the step of the request that follows    *)
(* it, or of the one that precedes it when the handler returns.            *)
(***************************************************************************)
EXTENDS Integers, Sequences, FiniteSets, TLC

\* ------------------------------------------------------------ bounds
NumCities == 2      \* cities of the configured list that are modelled
MaxClock == 3       \* last second of the invoking host's wall clock
DayLen == 2         \* seconds per calendar day of the wall clock
MaxStoreTime == 2   \* last value of the store's LastModified clock
MaxFaults == 1      \* store or API requests that may fail in a behaviour
MaxSeedObjects == 3 \* objects under a prefix before the first retention call

Cities == 1..NumCities
Runs == {1, 2}

VARIABLES
    store,        \* the bucket: a set of objects [key, lm, body], one per key
    clock,        \* the invoking hosts' wall clock, in seconds
    stime,        \* the store's clock, which stamps LastModified
    faults,       \* requests that have failed so far
    run           \* per run: the handler's frame (pc, locals, result)

vars == <<store, clock, stime, faults, run>>

\* ------------------------------------------------------------ keys
\* current_date = datetime.now().strftime("%Y-%m-%d")
DateOf(c) == (c - 1) \div DayLen + 1

\* A prefix "<area>/<category>/<date>/": RF = to_be_processed/forecast,
\* RA = to_be_processed/alert, PC = processed/current_weather,
\* PF = processed/<city>_forecast (city = 0 for the other three).
Pfx(cat, city, date) == [cat |-> cat, city |-> city, date |-> date]

\* A key "<prefix><stem>_<ts>.<ext>".
Key(pfx, stem, ts, ext) == [pfx |-> pfx, stem |-> stem, ts |-> ts, ext |-> ext]

\* UTF-8 binary order of the file names that occur under one prefix.
StemRank(s) ==
    CASE s = "csv_data" -> 1
      [] s = "current_weather" -> 2
      [] s = "forecast" -> 3
      [] s = "json_data" -> 4
      [] s = "location" -> 5

ExtRank(e) == IF e = "csv" THEN 1 ELSE 2

KeyLess(k1, k2) ==
    \/ StemRank(k1.stem) < StemRank(k2.stem)
    \/ /\ k1.stem = k2.stem
       /\ \/ k1.ts < k2.ts
          \/ k1.ts = k2.ts /\ ExtRank(k1.ext) < ExtRank(k2.ext)

\* ------------------------------------------------------------ the store
Under(s, pfx) == {o \in s : o.key.pfx = pfx}

HasKey(s, k) == \E o \in s : o.key = k

\* s3.put_object: a put to an existing key replaces the object.
PutObject(s, k, body, t) ==
    {o \in s : o.key # k} \cup {[key |-> k, lm |-> t, body |-> body]}

\* s3.delete_object: by key; deleting an absent key succeeds.
DeleteObject(s, k) == {o \in s : o.key # k}

\* The objects of S in the order of their keys.
KeyOrdered(S) ==
    [k \in 1..Cardinality(S) |->
        CHOOSE o \in S : Cardinality({p \in S : KeyLess(p.key, o.key)}) = k - 1]

\* s3.list_objects_v2(Bucket, Prefix).get('Contents', []): in key order.
ListObjects(s, pfx) == KeyOrdered(Under(s, pfx))

\* The number of objects a stable descending sort places before objs[i]:
\* the later ones, and the equally late ones listed before it.
BeforeDesc(objs, i) ==
    Cardinality({j \in 1..Len(objs) :
        objs[j].lm > objs[i].lm \/ (objs[j].lm = objs[i].lm /\ j < i)})

\* The sort without reverse=True: oldest first.
SortedAscending(objs) ==
    [k \in 1..Len(objs) |->
        objs[CHOOSE i \in 1..Len(objs) :
                Cardinality({j \in 1..Len(objs) :
                    objs[j].lm < objs[i].lm \/ (objs[j].lm = objs[i].lm /\ j < i)})
                    = k - 1]]

\* sorted(objects, key=lambda x: x['LastModified'], reverse=True): stable,
\* so objects of equal LastModified keep their listing order.
SortedObjects(objs) ==
    [k \in 1..Len(objs) |-> objs[CHOOSE i \in 1..Len(objs) : BeforeDesc(objs, i) = k - 1]]

\* max(files, key=lambda x: x['LastModified']): the first of the maxima.
LatestOf(objs) ==
    objs[CHOOSE i \in 1..Len(objs) :
            \A j \in 1..Len(objs) :
                objs[j].lm < objs[i].lm \/ (objs[j].lm = objs[i].lm /\ j >= i)]

\* ------------------------------------------------------------ runs
NoKey == Key(Pfx("none", 0, 0), "none", 0, "none")

NoBody == [keys |-> {}, counts |-> <<>>, created |-> 0, cities |-> <<>>]

\* A handler frame before its invocation.  kind: I (Ingestion.py), F
\* (Forecast.py), C (Current_Weather.py), R (a bare call of
\* delete_old_versions).  fkey/akey and fbody/abody are the latest raw
\* objects and their parsed bodies; keys, stamps, ndel, gone, calls and
\* store0 record what the run did: the keys it put and the LastModified
\* each got, the delete requests the store accepted from it and their
\* keys, its delete_old_versions calls, and the store as the invocation
\* found it.
Idle ==
    [kind |-> "none", pc |-> "idle", date |-> 0, ts |-> 0, i |-> 0,
     arg |-> Pfx("none", 0, 0),
     fdata |-> <<>>, adata |-> <<>>, recs |-> <<>>,
     fseen |-> "none", aseen |-> "none",
     fkey |-> NoKey, akey |-> NoKey, fbody |-> "none", abody |-> "none",
     listed |-> FALSE, seen |-> {}, todo |-> <<>>, cnt |-> 0, removed |-> 0,
     counts |-> <<>>, calls |-> <<>>, keys |-> <<>>, stamps |-> <<>>,
     ndel |-> 0, gone |-> {},
     raised |-> "none", status |-> 0, body |-> NoBody, store0 |-> {}]

Start(kind, pc, s) == [Idle EXCEPT !.kind = kind, !.pc = pc, !.store0 = s]

CanFail == faults < MaxFaults

\* A handler whose except clause lets the exception through to the caller.
FailedEscapes(rr, what) ==
    [rr EXCEPT !.pc = "done", !.status = 0, !.raised = what,
               !.todo = <<>>, !.listed = FALSE, !.seen = {}]

\* The except clause at the end of each lambda_handler: statusCode 500.
Failed(rr, what) ==
    [rr EXCEPT !.pc = "done", !.status = 500, !.raised = what,
               !.todo = <<>>, !.listed = FALSE, !.seen = {}]

PrunePcs == {"prune", "prune_rf", "prune_ra", "prune_pc", "prune_pf"}

\* The prefix argument of the delete_old_versions call at rr.pc.
PruneArg(rr) ==
    CASE rr.pc = "prune" -> rr.arg
      [] rr.pc = "prune_rf" -> Pfx("RF", 0, rr.date)
      [] rr.pc = "prune_ra" -> Pfx("RA", 0, rr.date)
      [] rr.pc = "prune_pc" -> Pfx("PC", 0, rr.date)
      [] rr.pc = "prune_pf" -> Pfx("PF", rr.i, rr.date)

SeqSet(q) == {q[j] : j \in 1..Len(q)}

RECURSIVE SeqSum(_)
SeqSum(q) == IF q = <<>> THEN 0 ELSE Head(q) + SeqSum(Tail(q))

\* The 200 body of Ingestion.py: four locations, three cleanup counts.
IngestionBody(rr, counts) ==
    [keys |-> SeqSet(rr.keys), counts |-> counts, created |-> 0, cities |-> <<>>]

\* The 200 body of Current_Weather.py: two locations, three counts.
CurrentBody(rr, counts) ==
    [keys |-> SeqSet(rr.keys), counts |-> counts, created |-> 0, cities |-> <<>>]

\* The 200 body of Forecast.py: processed_cities, files_created and
\* files_deleted, which is deleted_raw_count alone.
ForecastBody(rr, counts) ==
    [keys |-> {}, counts |-> <<counts[Len(counts)]>>,
     created |-> Len(rr.keys), cities |-> [c \in Cities |-> c]]

Return200(rr, counts, body) ==
    [rr EXCEPT !.pc = "done", !.status = 200, !.counts = counts, !.body = body]

\* What the caller does with the value delete_old_versions returned.
Resume(rr, ret) ==
    LET counts == Append(rr.counts, ret) IN
    CASE rr.kind = "R" -> [rr EXCEPT !.pc = "done", !.counts = counts]
      [] rr.kind = "I" ->
            IF rr.pc = "prune_rf" THEN [rr EXCEPT !.pc = "prune_ra", !.counts = counts]
            ELSE IF rr.pc = "prune_ra" THEN [rr EXCEPT !.pc = "prune_pc", !.counts = counts]
            ELSE Return200(rr, counts, IngestionBody(rr, counts))
      [] rr.kind = "C" ->
            IF rr.pc = "prune_pc" THEN [rr EXCEPT !.pc = "prune_rf", !.counts = counts]
            ELSE IF rr.pc = "prune_rf" THEN [rr EXCEPT !.pc = "prune_ra", !.counts = counts]
            ELSE Return200(rr, counts, CurrentBody(rr, counts))
      [] rr.kind = "F" ->
            IF rr.pc = "prune_pf"
            THEN IF rr.i < NumCities
                 THEN [rr EXCEPT !.pc = "put_j", !.i = rr.i + 1, !.counts = counts]
                 ELSE [rr EXCEPT !.pc = "prune_rf", !.counts = counts]
            ELSE Return200(rr, counts, ForecastBody(rr, counts))

\* delete_old_versions returns ret; failed says its except clause ran.
Returned(rr, ret, failed) ==
    Resume([rr EXCEPT !.listed = FALSE, !.seen = {}, !.todo = <<>>, !.cnt = 0,
                      !.removed = 0,
                      !.calls = Append(@, [pfx |-> PruneArg(rr), seen |-> rr.seen,
                                           ret |-> ret, removed |-> rr.removed,
                                           failed |-> failed])],
           ret)

\* The except clause of delete_old_versions re-raising instead.
OnPruneErrorRaise(rr) == Failed(rr, "retention")

\* The except clause of delete_old_versions returning the count so far.
OnPruneErrorCount(rr) == Returned(rr, rr.cnt, TRUE)

\* The except clause of delete_old_versions: print, return 0.
OnPruneError(rr) == Returned(rr, 0, TRUE)

\* sorted_objects[1:], the objects to delete.
Stale(sorted_objects) == Tail(sorted_objects)

\* delete_old_versions, to its first delete: list, sort, keep the first.
DovList(r) ==
    /\ run[r].pc \in PrunePcs
    /\ ~run[r].listed
    /\ \/ /\ CanFail
          /\ faults' = faults + 1
          /\ run' = [run EXCEPT ![r] = OnPruneError(@)]
       \/ /\ faults' = faults
          /\ \E objects \in {ListObjects(store, PruneArg(run[r]))} :
             \E sorted_objects \in {SortedObjects(objects)} :
                LET todo == IF objects = <<>> THEN <<>> ELSE Stale(sorted_objects)
                    rr == [run[r] EXCEPT !.seen = SeqSet(objects)]
                IN  run' = [run EXCEPT ![r] =
                       IF todo = <<>>
                       THEN Returned(rr, 0, FALSE)
                       ELSE [rr EXCEPT !.listed = TRUE, !.todo = todo]]
    /\ UNCHANGED <<store, clock, stime>>

\* One turn of "for obj in sorted_objects[1:]": delete, count.
DovDelete(r) ==
    /\ run[r].pc \in PrunePcs
    /\ run[r].listed
    /\ \/ /\ CanFail
          /\ faults' = faults + 1
          /\ store' = store
          /\ run' = [run EXCEPT ![r] = OnPruneError(@)]
       \/ /\ faults' = faults
          /\ LET k == Head(run[r].todo).key
                 rr == [run[r] EXCEPT !.todo = Tail(@), !.cnt = @ + 1,
                                      !.ndel = @ + 1, !.gone = @ \cup {k},
                                      !.removed = @ + (IF HasKey(store, k) THEN 1 ELSE 0)]
             IN  /\ store' = DeleteObject(store, k)
                 /\ run' = [run EXCEPT ![r] =
                        IF rr.todo = <<>> THEN Returned(rr, rr.cnt, FALSE) ELSE rr]
    /\ UNCHANGED <<clock, stime>>

\* ------------------------------------------------------------ retention alone
\* The names an object may have under the prefix of the retention calls.
SeedKeys ==
    {Key(Pfx("PC", 0, 1), n[1], t, n[2]) :
        n \in {<<"json_data", "json">>, <<"csv_data", "csv">>,
               <<"current_weather", "json">>},
        t \in 0..1}

\* The buckets a retention call may find: up to MaxSeedObjects objects
\* under the prefix, and one object under another prefix.
SeedStores ==
    {{[key |-> k, lm |-> f[k], body |-> "out"] : k \in ks}
        \cup {[key |-> Key(Pfx("RF", 0, 1), "json_data", 0, "json"),
               lm |-> 0, body |-> "dict"]} :
        ks \in {x \in SUBSET SeedKeys : Cardinality(x) <= MaxSeedObjects},
        f \in [SeedKeys -> 0..MaxStoreTime]}

InitRetention ==
    /\ store \in SeedStores
    /\ clock = 1
    /\ stime = MaxStoreTime
    /\ faults = 0
    /\ run = [r \in Runs |-> Idle]

\* A caller: delete_old_versions(BUCKET, prefix).
CallRetention(r) ==
    /\ run[r].pc = "idle"
    /\ run' = [run EXCEPT ![r] =
            [Start("R", "prune", store) EXCEPT !.arg = Pfx("PC", 0, 1)]]
    /\ UNCHANGED <<store, clock, stime, faults>>

NextRetention == CallRetention(1) \/ DovList(1) \/ DovDelete(1)

SpecRetention == InitRetention /\ [][NextRetention]_vars

\* ------------------------------------------------------------ clocks
\* Both clocks only move forward, and a clock is seen only when it is
\* read: a step that reads one first lets it advance.
\* datetime.now() reads now.
ReadClock(now) == now \in clock..MaxClock /\ clock' = now

\* The store stamps a put with LastModified = t.
StampPut(t) == t \in stime..MaxStoreTime /\ stime' = t

\* ------------------------------------------------------------ handlers
\* An invocation of a lambda_handler, to its first request; the handler
\* reads current_date first.
Invoke(r, kind, pc) ==
    /\ run[r].pc = "idle"
    /\ \E now \in 1..MaxClock :
          /\ ReadClock(now)
          /\ run' = [run EXCEPT ![r] =
                [Start(kind, pc, store) EXCEPT !.date = DateOf(now)]]
    /\ UNCHANGED <<store, stime, faults>>

Return404(rr) == [rr EXCEPT !.pc = "done", !.status = 404]

\* A request of run r fails: the handler's except clause returns 500.
Raise(r, what) ==
    /\ CanFail
    /\ faults' = faults + 1
    /\ run' = [run EXCEPT ![r] = Failed(@, what)]
    /\ UNCHANGED <<store, clock, stime>>

\* s3.put_object(Key=k, Body=body) by run r, which goes on at pc; the
\* wall clock is the caller's to set.
Put(r, k, body, pc) ==
    /\ \E t \in 1..MaxStoreTime :
          /\ StampPut(t)
          /\ store' = PutObject(store, k, body, t)
          /\ run' = [run EXCEPT ![r] =
                [@ EXCEPT !.keys = Append(@, k), !.stamps = Append(@, t), !.pc = pc]]
    /\ faults' = faults

\* ------------------------------------------------------------ Ingestion.py
InvokeIngestion(r) == Invoke(r, "I", "fetch_f")

\* save_to_s3: the key "{prefix}{file_type}_data_{timestamp}.{file_type}",
\* with the timestamp read at the call.
SaveKey(prefix, file_type, now) == Key(prefix, file_type \o "_data", now, file_type)

\* for city in CITIES: forecast = get_weather_data(city, 'forecast').  The
\* API answers with a forecast document ("ok"), with a document that lacks
\* the forecast fields ("bad"), or the request raises.
IFetchForecast(r) ==
    /\ run[r].kind = "I" /\ run[r].pc = "fetch_f"
    /\ \/ Raise(r, "fetch_forecast")
       \/ /\ \E doc \in {"ok", "bad"} :
                /\ doc = "bad" => CanFail
                /\ faults' = faults + (IF doc = "bad" THEN 1 ELSE 0)
                /\ LET fdata == Append(run[r].fdata, doc)
                   IN  run' = [run EXCEPT ![r] =
                          [@ EXCEPT !.fdata = fdata,
                                    !.pc = IF Len(fdata) = NumCities
                                           THEN "save_rf" ELSE "fetch_f"]]
          /\ UNCHANGED <<store, clock, stime>>

\* save_to_s3(bucket, prefix, data, file_type) by run r, which goes on at pc.
SaveToS3(r, prefix, body, file_type, pc) ==
    \E now \in 1..MaxClock :
        /\ ReadClock(now)
        /\ Put(r, SaveKey(prefix, file_type, now), body, pc)

ISaveForecast(r) ==
    /\ run[r].kind = "I" /\ run[r].pc = "save_rf"
    /\ \/ Raise(r, "put")
       \/ SaveToS3(r, Pfx("RF", 0, run[r].date),
                   IF \A c \in Cities : run[r].fdata[c] = "ok" THEN "list" ELSE "listbad",
                   "json", "fetch_a")

\* The alert document of a city whose request raised:
\* {'city': city, 'error': str(e)}.
AlertPlaceholder == "error"

\* alert_data.append(alert)
AlertAppended(rr, doc) ==
    LET adata == Append(rr.adata, doc)
    IN  [rr EXCEPT !.adata = adata,
                   !.pc = IF Len(adata) = NumCities THEN "save_ra" ELSE "fetch_a"]

\* The alert request raising with no try around it.
OnAlertErrorRaise(rr) == Failed(rr, "fetch_alert")

\* except Exception as e: print, alert_data.append(placeholder).
OnAlertError(rr) == AlertAppended(rr, AlertPlaceholder)

\* for city in CITIES: try get_weather_data(city, 'alerts').  The API
\* answers with alerts for the city ("alerts"), with none ("none"), or
\* the request raises.
IFetchAlert(r) ==
    /\ run[r].kind = "I" /\ run[r].pc = "fetch_a"
    /\ \/ /\ CanFail
          /\ faults' = faults + 1
          /\ run' = [run EXCEPT ![r] = OnAlertError(@)]
       \/ /\ faults' = faults
          /\ \E doc \in {"alerts", "none"} :
                run' = [run EXCEPT ![r] = AlertAppended(@, doc)]
    /\ UNCHANGED <<store, clock, stime>>

ISaveAlerts(r) ==
    /\ run[r].kind = "I" /\ run[r].pc = "save_ra"
    /\ \/ Raise(r, "put")
       \/ SaveToS3(r, Pfx("RA", 0, run[r].date), "list", "json", "save_pj")

\* The Alerts field of the record of the city whose alert document is doc.
AlertsText(doc) == IF doc = "alerts" THEN "joined" ELSE "No alerts"

\* "Process the data into final format", then the first processed save.
\* A document without the forecast fields raises KeyError.
ISaveJson(r) ==
    /\ run[r].kind = "I" /\ run[r].pc = "save_pj"
    /\ IF \E c \in Cities : run[r].fdata[c] = "bad"
       THEN /\ run' = [run EXCEPT ![r] = Failed(@, "reshape")]
            /\ UNCHANGED <<store, clock, stime, faults>>
       ELSE \/ Raise(r, "put")
            \/ \E now \in 1..MaxClock, t \in 1..MaxStoreTime :
                  LET k == SaveKey(Pfx("PC", 0, run[r].date), "json", now) IN
                  /\ ReadClock(now)
                  /\ StampPut(t)
                  /\ store' = PutObject(store, k, "out", t)
                  /\ run' = [run EXCEPT ![r] =
                        [@ EXCEPT !.keys = Append(@, k), !.stamps = Append(@, t),
                                  !.recs = [c \in Cities |-> AlertsText(run[r].adata[c])],
                                  !.pc = "save_pc"]]
                  /\ faults' = faults

ISaveCsv(r) ==
    /\ run[r].kind = "I" /\ run[r].pc = "save_pc"
    /\ \/ Raise(r, "put")
       \/ SaveToS3(r, Pfx("PC", 0, run[r].date), "out", "csv", "prune_rf")

\* ------------------------------------------------------------ Current_Weather.py
InvokeCurrent(r) == Invoke(r, "C", "list_f")

Seen(objects) == IF objects = <<>> THEN "empty" ELSE "some"

LatestKey(objects) == IF objects = <<>> THEN NoKey ELSE LatestOf(objects).key

CListForecast(r) ==
    /\ run[r].kind = "C" /\ run[r].pc = "list_f"
    /\ \/ Raise(r, "list")
       \/ /\ \E forecast_files \in {ListObjects(store, Pfx("RF", 0, run[r].date))} :
                 run' = [run EXCEPT ![r] =
                    [@ EXCEPT !.fseen = Seen(forecast_files),
                              !.fkey = LatestKey(forecast_files),
                              !.pc = "list_a"]]
          /\ UNCHANGED <<store, clock, stime, faults>>

\* The 404 checks with the one for alert_files left out.
CurrentMissingForecastOnly(fseen, aseen) == fseen = "empty"

\* The two "if not ...: return 404" after both listings.
CurrentMissing(fseen, aseen) == fseen = "empty" \/ aseen = "empty"

CListAlert(r) ==
    /\ run[r].kind = "C" /\ run[r].pc = "list_a"
    /\ \/ Raise(r, "list")
       \/ /\ \E alert_files \in {ListObjects(store, Pfx("RA", 0, run[r].date))} :
             LET rr == [run[r] EXCEPT !.aseen = Seen(alert_files)]
             IN  run' = [run EXCEPT ![r] =
                    IF CurrentMissing(rr.fseen, rr.aseen)
                    THEN Return404([rr EXCEPT !.fkey = NoKey])
                    ELSE [rr EXCEPT !.akey = LatestKey(alert_files), !.pc = "get_f"]]
          /\ UNCHANGED <<store, clock, stime, faults>>

BodyOf(s, k) == (CHOOSE o \in s : o.key = k).body

\* s3.get_object of the latest raw forecast; a key that is gone raises.
GetForecast(r, kind) ==
    /\ run[r].kind = kind /\ run[r].pc = "get_f"
    /\ \/ Raise(r, "get")
       \/ /\ run' = [run EXCEPT ![r] =
                IF HasKey(store, run[r].fkey)
                THEN [@ EXCEPT !.fbody = BodyOf(store, run[r].fkey), !.pc = "get_a"]
                ELSE Failed(@, "get")]
          /\ UNCHANGED <<store, clock, stime, faults>>

CGetForecast(r) == GetForecast(r, "C")

\* forecast_dict.items() and alert_dict.get(...) need JSON objects, and
\* every city document its 'current' and 'location' fields.
CurrentParses(fbody, abody) == fbody = "dict" /\ abody = "dict"

\* get the latest raw alerts, parse both bodies, build current_list and
\* read the timestamp of the run.
CGetAlert(r) ==
    /\ run[r].kind = "C" /\ run[r].pc = "get_a"
    /\ \/ Raise(r, "get")
       \/ /\ IF ~HasKey(store, run[r].akey)
             THEN run' = [run EXCEPT ![r] = Failed(@, "get")] /\ clock' = clock
             ELSE IF ~CurrentParses(run[r].fbody, BodyOf(store, run[r].akey))
             THEN run' = [run EXCEPT ![r] = Failed(@, "reshape")] /\ clock' = clock
             ELSE \E now \in 1..MaxClock :
                     /\ ReadClock(now)
                     /\ run' = [run EXCEPT ![r] =
                           [@ EXCEPT !.abody = BodyOf(store, run[r].akey),
                                     !.recs = [c \in Cities |-> "No alerts"],
                                     !.ts = now, !.pc = "put_j"]]
          /\ UNCHANGED <<store, stime, faults>>

CPutJson(r) ==
    /\ run[r].kind = "C" /\ run[r].pc = "put_j"
    /\ \/ Raise(r, "put")
       \/ /\ Put(r, Key(Pfx("PC", 0, run[r].date), "current_weather", run[r].ts, "json"),
                 "out", "put_c")
          /\ clock' = clock

CPutCsv(r) ==
    /\ run[r].kind = "C" /\ run[r].pc = "put_c"
    /\ \/ Raise(r, "put")
       \/ /\ Put(r, Key(Pfx("PC", 0, run[r].date), "current_weather", run[r].ts, "csv"),
                 "out", "prune_pc")
          /\ clock' = clock

\* ------------------------------------------------------------ Forecast.py
InvokeForecast(r) == Invoke(r, "F", "list_f")

FListForecast(r) ==
    /\ run[r].kind = "F" /\ run[r].pc = "list_f"
    /\ \/ Raise(r, "list")
       \/ /\ \E forecast_files \in {ListObjects(store, Pfx("RF", 0, run[r].date))} :
             LET rr == [run[r] EXCEPT !.fseen = Seen(forecast_files)]
             IN  run' = [run EXCEPT ![r] =
                    IF forecast_files = <<>> THEN Return404(rr)
                    ELSE [rr EXCEPT !.fkey = LatestKey(forecast_files), !.pc = "get_f"]]
          /\ UNCHANGED <<store, clock, stime, faults>>

\* isinstance(forecast_data, list) or dict, and get_city_name of every
\* document; anything else raises.
ForecastParses(fbody) == fbody \in {"list", "dict"}

\* get the latest raw forecast, parse and re-key it, read the timestamp.
FGetForecast(r) ==
    /\ run[r].kind = "F" /\ run[r].pc = "get_f"
    /\ \/ Raise(r, "get")
       \/ /\ IF ~HasKey(store, run[r].fkey)
             THEN run' = [run EXCEPT ![r] = Failed(@, "get")] /\ clock' = clock
             ELSE IF ~ForecastParses(BodyOf(store, run[r].fkey))
             THEN run' = [run EXCEPT ![r] = Failed(@, "reshape")] /\ clock' = clock
             ELSE \E now \in 1..MaxClock :
                     /\ ReadClock(now)
                     /\ run' = [run EXCEPT ![r] =
                           [@ EXCEPT !.fbody = BodyOf(store, run[r].fkey),
                                     !.ts = now, !.i = 1, !.pc = "put_j"]]
          /\ UNCHANGED <<store, stime, faults>>

FPut(r, pc, stem, ext, next) ==
    /\ run[r].kind = "F" /\ run[r].pc = pc
    /\ \/ Raise(r, "put")
       \/ /\ Put(r, Key(Pfx("PF", run[r].i, run[r].date), stem, run[r].ts, ext),
                 "out", next)
          /\ clock' = clock

FPutJson(r) == FPut(r, "put_j", "forecast", "json", "put_l")

FPutLocation(r) == FPut(r, "put_l", "location", "csv", "put_c")

FPutCsv(r) == FPut(r, "put_c", "forecast", "csv", "prune_pf")

\* ------------------------------------------------------------ one run at a time
RawSeed(cat, body) ==
    [key |-> Key(Pfx(cat, 0, 1), "json_data", 0, "json"), lm |-> 0, body |-> body]

\* The bucket at an invocation: empty; holding the raw documents of the
\* first day as Ingestion.py writes them (JSON lists) or as JSON objects
\* keyed by city; holding no alerts; or holding a raw forecast that is
\* neither a list nor an object.
PipelineSeeds ==
    {{},
     {RawSeed("RF", "list"), RawSeed("RA", "list")},
     {RawSeed("RF", "dict"), RawSeed("RA", "dict")},
     {RawSeed("RF", "dict")},
     {RawSeed("RF", "other"), RawSeed("RA", "dict")}}

Init ==
    /\ store \in PipelineSeeds
    /\ clock = 1
    /\ stime = 1
    /\ faults = 0
    /\ run = [r \in Runs |-> Idle]

Retention(r) == DovList(r) \/ DovDelete(r)

Ingestion(r) ==
    \/ InvokeIngestion(r)
    \/ IFetchForecast(r) \/ ISaveForecast(r) \/ IFetchAlert(r) \/ ISaveAlerts(r)
    \/ ISaveJson(r) \/ ISaveCsv(r)

Current(r) ==
    \/ InvokeCurrent(r)
    \/ CListForecast(r) \/ CListAlert(r) \/ CGetForecast(r) \/ CGetAlert(r)
    \/ CPutJson(r) \/ CPutCsv(r)

Forecast(r) ==
    \/ InvokeForecast(r)
    \/ FListForecast(r) \/ FGetForecast(r)
    \/ FPutJson(r) \/ FPutLocation(r) \/ FPutCsv(r)

Next ==
    \/ Ingestion(1) \/ Current(1) \/ Forecast(1) \/ Retention(1)

Spec == Init /\ [][Next]_vars

\* ------------------------------------------------------------ two runs at once
\* Two invocations of Ingestion.py at work on an empty bucket within the
\* same second of the wall clock, their requests interleaved in any order,
\* and no request failing.
InitConcurrent ==
    /\ store = {}
    /\ clock = MaxClock
    /\ stime = 1
    /\ faults = MaxFaults
    /\ run = [r \in Runs |-> Idle]

NextConcurrent == \E r \in Runs : Ingestion(r) \/ Retention(r)

SpecConcurrent == InitConcurrent /\ [][NextConcurrent]_vars

\* ------------------------------------------------------------ runs without end
\* The handler has returned; its frame is gone and the next invocation
\* may come.
Forget(r) ==
    /\ run[r].pc = "done"
    /\ run' = [run EXCEPT ![r] = Idle]
    /\ UNCHANGED <<store, clock, stime, faults>>

\* The transform pipelines invoked again and again on the raw documents
\* of the first day.
InitLive ==
    /\ store = {RawSeed("RF", "dict"), RawSeed("RA", "dict")}
    /\ clock = 1
    /\ stime = 1
    /\ faults = 0
    /\ run = [r \in Runs |-> Idle]

NextLive == Current(1) \/ Forecast(1) \/ Retention(1) \/ Forget(1)

\* A started handler runs to its return, and each pipeline keeps being
\* invoked; at most MaxFaults requests fail, so failures stop.
SpecLive ==
    /\ InitLive
    /\ [][NextLive]_vars
    /\ WF_vars(NextLive)
    /\ SF_vars(InvokeCurrent(1))
    /\ SF_vars(InvokeForecast(1))

\* ------------------------------------------------------------ the pipeline
\* Ingestion.py on an empty bucket, and once it has returned 200, one of
\* the transform handlers on what it left.
InitPipeline ==
    /\ store = {}
    /\ clock = 1
    /\ stime = 1
    /\ faults = 0
    /\ run = [r \in Runs |-> Idle]

Ingested == run[1].pc = "done" /\ run[1].kind = "I" /\ run[1].status = 200

TransformCurrent(r) == Ingested /\ Current(r)

TransformForecast(r) == Ingested /\ Forecast(r)

NextPipeline ==
    \/ Ingestion(1) \/ Retention(1)
    \/ TransformCurrent(2) \/ TransformForecast(2) \/ Retention(2)

SpecPipeline == InitPipeline /\ [][NextPipeline]_vars

\* ------------------------------------------------------------ properties
Done(r) == run[r].pc = "done"

Handlers == {"I", "F", "C"}

MaxLm(S) == CHOOSE m \in {o.lm : o \in S} : \A o \in S : o.lm <= m

\* C1.  Retention correctness: when a call of delete_old_versions has
\* listed a non-empty set of objects under its prefix and has completed
\* with no request failing, exactly one object is left under the prefix,
\* it is one of the listed objects, and its LastModified is the maximum
\* of the listed set.
RetentionCorrect ==
    \A r \in Runs :
        (Done(r) /\ run[r].kind = "R") =>
            LET c == run[r].calls[1]
                left == Under(store, c.pfx)
            IN  (~c.failed /\ c.seen # {}) =>
                    /\ Cardinality(left) = 1
                    /\ left \subseteq c.seen
                    /\ \A o \in left : o.lm = MaxLm(c.seen)

\* A completed call that listed three objects, two of them sharing the
\* latest LastModified, and deleted two.
RetentionCorrectWitness ==
    \E r \in Runs :
        /\ Done(r) /\ run[r].kind = "R"
        /\ ~run[r].calls[1].failed
        /\ Cardinality(run[r].calls[1].seen) = 3
        /\ Cardinality({o \in run[r].calls[1].seen :
                            o.lm = MaxLm(run[r].calls[1].seen)}) = 2
        /\ run[r].calls[1].ret = 2

\* C10 as claimed.  Deleted-count accuracy: every call of
\* delete_old_versions, failing or not, returns the number of objects it
\* removed from the store.
DeletedCountAlwaysAccurate ==
    \A r \in Runs :
        (Done(r) /\ run[r].kind = "R") =>
            run[r].calls[1].ret = run[r].calls[1].removed

\* C10 as amended.  With no other run at work on the prefix, a call of
\* delete_old_versions in which no request fails returns the number of
\* objects it removed; a call in which the list or a delete fails returns
\* 0, whatever it removed before the failure.
DeletedCountAccurate ==
    \A r \in Runs :
        (Done(r) /\ run[r].kind = "R") =>
            LET c == run[r].calls[1]
            IN  /\ ~c.failed => c.ret = c.removed
                /\ ~c.failed => Cardinality(Under(run[r].store0, c.pfx))
                                    = Cardinality(Under(store, c.pfx)) + c.ret
                /\ c.failed => c.ret = 0

\* A call that removed two objects and returned 2.
DeletedCountAccurateWitness ==
    \E r \in Runs :
        /\ Done(r) /\ run[r].kind = "R"
        /\ ~run[r].calls[1].failed
        /\ run[r].calls[1].removed = 2
        /\ run[r].calls[1].ret = 2

\* The prefixes a handler passes to delete_old_versions when nothing raises.
PruneCalls(kind) == IF kind = "F" THEN NumCities + 1 ELSE 3

\* C4.  Missing-input envelope: a Forecast.py invocation whose listing
\* finds no object under to_be_processed/forecast/{today}/, and a
\* Current_Weather.py invocation whose two listings find the forecast
\* prefix or the alert prefix empty, return 404, put nothing, delete
\* nothing, and leave the store as the invocation found it.
MissingInput404 ==
    \A r \in Runs :
        (/\ Done(r)
         /\ \/ run[r].kind = "F" /\ run[r].fseen = "empty"
            \/ /\ run[r].kind = "C"
               /\ run[r].fseen # "none" /\ run[r].aseen # "none"
               /\ run[r].fseen = "empty" \/ run[r].aseen = "empty")
        => /\ run[r].status = 404
           /\ run[r].keys = <<>>
           /\ run[r].ndel = 0
           /\ run[r].calls = <<>>
           /\ store = run[r].store0

\* A Current_Weather.py run that found a raw forecast and no raw alerts.
MissingInput404Witness ==
    \E r \in Runs :
        /\ Done(r) /\ run[r].kind = "C"
        /\ run[r].fseen = "some" /\ run[r].aseen = "empty"
        /\ run[r].status = 404
        /\ store # {}

\* C5.  Status envelope: a handler returns 200, 404 or 500; whatever
\* raises inside it (a list, a get, a fetch, a parse or reshape, a put)
\* is answered with 500, and only that; and at a 500 every object the run
\* put is still in the store, unless the run's own retention deleted it.
StatusEnvelope ==
    \A r \in Runs :
        (Done(r) /\ run[r].kind \in Handlers) =>
            /\ run[r].status \in {200, 404, 500}
            /\ run[r].raised # "none" <=> run[r].status = 500
            /\ run[r].status = 500 =>
                  \A k \in SeqSet(run[r].keys) : HasKey(store, k) \/ k \in run[r].gone

\* An Ingestion.py run that wrote both raw objects and then failed on a
\* forecast document without the expected fields.
StatusEnvelopeWitness ==
    \E r \in Runs :
        /\ Done(r) /\ run[r].kind = "I"
        /\ run[r].status = 500 /\ run[r].raised = "reshape"
        /\ Len(run[r].keys) = 2
        /\ \A k \in SeqSet(run[r].keys) : HasKey(store, k)

\* C6.  Retention failure isolation: a failure of the list or of a delete
\* inside delete_old_versions never reaches the handler's except clause;
\* the call returns 0 to the handler; and a handler in which nothing else
\* raises still makes all its retention calls and returns 200.
RetentionFailureIsolated ==
    \A r \in Runs :
        (Done(r) /\ run[r].kind \in Handlers) =>
            /\ run[r].raised # "retention"
            /\ \A j \in DOMAIN run[r].calls :
                  run[r].calls[j].failed =>
                      run[r].calls[j].ret = 0 /\ run[r].counts[j] = 0
            /\ ((\E j \in DOMAIN run[r].calls : run[r].calls[j].failed)
                    /\ run[r].raised = "none")
               => /\ run[r].status = 200
                  /\ Len(run[r].calls) = PruneCalls(run[r].kind)

\* A Current_Weather.py run whose first retention call listed its prefix
\* and failed on the delete, and which then pruned the two raw prefixes.
RetentionFailureIsolatedWitness ==
    \E r \in Runs :
        /\ Done(r) /\ run[r].kind = "C"
        /\ run[r].status = 200
        /\ Len(run[r].calls) = 3
        /\ run[r].calls[1].failed /\ run[r].calls[1].seen # {}
        /\ ~run[r].calls[2].failed /\ ~run[r].calls[3].failed

\* What may end an Ingestion.py run with 500: a forecast request that
\* raises, a forecast document without the expected fields, a failing put.
IngestionFatal == {"fetch_forecast", "reshape", "put"}

\* C7.  Best-effort alerts, fatal forecast: a failing alert request never
\* ends an Ingestion.py run, which returns 200 with one record per city,
\* the failed city's Alerts being "No alerts"; a forecast request that
\* raises ends the run with 500 before anything was written or deleted.
AlertsBestEffortForecastFatal ==
    \A r \in Runs :
        (Done(r) /\ run[r].kind = "I") =>
            /\ run[r].raised \in IngestionFatal \cup {"none"}
            /\ run[r].raised = "none" <=> run[r].status = 200
            /\ run[r].status = 200 =>
                  /\ DOMAIN run[r].recs = Cities
                  /\ \A c \in Cities :
                        run[r].adata[c] = AlertPlaceholder => run[r].recs[c] = "No alerts"
            /\ run[r].raised = "fetch_forecast" =>
                  /\ run[r].status = 500
                  /\ run[r].keys = <<>> /\ run[r].ndel = 0
                  /\ store = run[r].store0

\* A run that returned 200 although the alert request of its first city
\* raised, with that city at "No alerts" and another city's alerts joined.
AlertsBestEffortWitness ==
    \E r \in Runs :
        /\ Done(r) /\ run[r].kind = "I" /\ run[r].status = 200
        /\ run[r].adata[1] = AlertPlaceholder
        /\ run[r].recs[1] = "No alerts"
        /\ \E c \in Cities : run[r].recs[c] = "joined"

\* C8 as claimed.  Success envelope completeness: a 200 body lists every
\* key the run wrote, and its deletion counts add up to what the run's
\* delete_old_versions calls returned.
EnvelopeComplete ==
    \A r \in Runs :
        (Done(r) /\ run[r].kind \in Handlers /\ run[r].status = 200) =>
            /\ run[r].body.keys = SeqSet(run[r].keys)
            /\ SeqSum(run[r].body.counts) = SeqSum(run[r].counts)

\* C9 as claimed.  Shared run timestamp: all keys one run wrote carry the
\* same timestamp.
SharedRunTimestamp ==
    \A r \in Runs :
        run[r].kind \in Handlers =>
            \A j, k \in DOMAIN run[r].keys : run[r].keys[j].ts = run[r].keys[k].ts

\* The puts of all runs, the prefixes they went to, and the LastModified
\* stamps of the puts under prefix p.
Writes == UNION {{<<r, j>> : j \in DOMAIN run[r].keys} : r \in Runs}

Touched == {run[w[1]].keys[w[2]].pfx : w \in Writes}

PutStamps(p) ==
    {run[w[1]].stamps[w[2]] : w \in {x \in Writes : run[x[1]].keys[x[2]].pfx = p}}

\* C2 as claimed.  Last-write-wins: once two concurrent runs with no
\* failing request have both returned, every prefix they wrote to holds
\* exactly one object, stamped with the latest LastModified of all the
\* writes under that prefix; no prefix that held an object is left empty.
LastWriteWins ==
    (\A r \in Runs : Done(r) /\ run[r].status = 200) =>
        \A p \in Touched :
            /\ Cardinality(Under(store, p)) = 1
            /\ \A o \in Under(store, p) :
                  \A t \in PutStamps(p) : t <= o.lm

\* The prefixes of the modelled days.
Prefixes ==
    {Pfx(cat, 0, d) : cat \in {"RF", "RA", "PC"}, d \in 1..DateOf(MaxClock)}
        \cup {Pfx("PF", c, d) : c \in Cities, d \in 1..DateOf(MaxClock)}

Crowded(p) == Cardinality(Under(store, p)) > 1

\* C3.  Self-healing retention: a prefix left with more than one object
\* eventually holds at most one, as invocations keep occurring and the
\* store's requests stop failing.
SelfHealing == \A p \in Prefixes : Crowded(p) ~> ~Crowded(p)

\* The requests of the store a run makes outside delete_old_versions.
StoreRequests == {"list", "get", "put"}

\* No request of run r to the store failed.
NoStoreFailure(r) ==
    /\ run[r].raised \notin StoreRequests
    /\ \A j \in DOMAIN run[r].calls : ~run[r].calls[j].failed

\* C11.  Written outputs survive the run's own retention: when a run
\* with no failing store request returns 200, every object it put under
\* a processed prefix is still in the store.
OutputsSurvive ==
    (Done(1) /\ run[1].kind \in Handlers /\ run[1].status = 200 /\ NoStoreFailure(1)) =>
        \A j \in DOMAIN run[1].keys :
            run[1].keys[j].pfx.cat \in {"PC", "PF"} => HasKey(store, run[1].keys[j])

\* C12.  Pipeline composition: a transform handler invoked on the date of
\* an Ingestion run that returned 200, with no failing store request,
\* returns 200, Current_Weather.py with one record per city.
PipelineComposes ==
    (Ingested /\ Done(2) /\ run[2].date = run[1].date /\ NoStoreFailure(2)) =>
        /\ run[2].status = 200
        /\ run[2].kind = "C" => DOMAIN run[2].recs = Cities

====
